---------------------------- MODULE Spec2Model ----------------------------
(***************************************************************************)
(* The /api/main pipeline of VideoFrameExtractor (src/src/module.js): the *)
(* request handler, the two extraction tasks it runs under Promise.all,   *)
(* the completion calls, the result validation and the prisma cache.      *)
(* One step of the model is one run of the event loop: a handler or a     *)
(* task runs from the settlement of the promise it awaits to its next     *)
(* await.                                                                  *)
(***************************************************************************)
EXTENDS Integers, Sequences, FiniteSets, TLC

(***************************************************************************)
(* Bounds of the exploration.                                              *)
(***************************************************************************)
\* Date.now() returns the milliseconds 0..MaxClock.
MaxClock == 1
\* ffmpeg writes 0..MaxFrames frame files.
MaxFrames == 2

\* The requests the server receives.  Each one is a run of the handler.
Requests == {"r1", "r2"}
\* The byte contents an uploaded video may have.
Contents == {"v1", "v2"}
NoVideo == "none"

(***************************************************************************)
(* JavaScript values, as far as the validators look at them.              *)
(***************************************************************************)
JUndefined == [t |-> "undefined"]
JNull == [t |-> "null"]
JBool(b) == [t |-> "boolean", b |-> b]
JNum(n) == [t |-> "number", n |-> n]
JStr(s) == [t |-> "string", s |-> s]
JArr(items) == [t |-> "array", items |-> items]
JObj(fields) == [t |-> "object", fields |-> fields]
\* a TypeError thrown while the expression was evaluated, in place of a value
JThrown == [t |-> "thrown"]

\* typeof v
TypeOf(v) == IF v.t \in {"array", "null"} THEN "object" ELSE v.t
\* ToBoolean(v)
Truthy(v) ==
    CASE v.t \in {"undefined", "null", "thrown"} -> FALSE
      [] v.t = "boolean" -> v.b
      [] v.t = "number" -> v.n # 0
      [] v.t = "string" -> v.s # ""
      [] OTHER -> TRUE
\* v.k: a TypeError when v is null or undefined
Get(v, k) ==
    IF v.t \in {"undefined", "null", "thrown"} THEN JThrown
    ELSE IF v.t = "object" /\ k \in DOMAIN v.fields THEN v.fields[k]
    ELSE JUndefined
\* a && b, with the second operand evaluated only when the first is truthy
AndAlso(a, b) == IF a = JThrown THEN JThrown ELSE IF Truthy(a) THEN b ELSE a

isAssessmentIndicatorNonEmpty(obj) ==
    IF TypeOf(obj) # "object" \/ obj.t = "array" \/ obj.t = "null"
    THEN JBool(FALSE)
    ELSE JBool(/\ DOMAIN obj.fields # {}
               /\ \A k \in DOMAIN obj.fields : TypeOf(obj.fields[k]) = "boolean")

isAssessmentIndicator(obj) ==
    IF TypeOf(obj) # "object" \/ obj.t = "array" \/ obj.t = "null"
    THEN JBool(FALSE)
    ELSE JBool(\A k \in DOMAIN obj.fields : TypeOf(obj.fields[k]) = "boolean")

isResultItemUnguarded(obj) ==
    LET recs == Get(obj, "recomendations") IN
    IF recs = JThrown THEN JThrown
    ELSE IF recs.t # "array" THEN JBool(FALSE)
    ELSE IF ~(\A i \in DOMAIN recs.items : TypeOf(recs.items[i]) = "string")
         THEN JBool(FALSE)
         ELSE isAssessmentIndicator(Get(obj, "assessmentIndicators"))

isResultItem(obj) ==
    IF ~Truthy(obj) THEN obj
    ELSE LET recs == Get(obj, "recomendations") IN
         IF recs.t # "array" THEN JBool(FALSE)
         ELSE IF ~(\A i \in DOMAIN recs.items : TypeOf(recs.items[i]) = "string")
              THEN JBool(FALSE)
              ELSE isAssessmentIndicator(Get(obj, "assessmentIndicators"))

\* obj?.k
OptGet(v, k) == IF v.t \in {"undefined", "null"} THEN JUndefined ELSE Get(v, k)

isOpenAIResponseResult(obj) ==
    AndAlso(obj,
    AndAlso(isResultItem(OptGet(obj, "opening")),
    AndAlso(isResultItem(OptGet(obj, "setup")),
    AndAlso(isResultItem(OptGet(obj, "main")),
    AndAlso(isResultItem(OptGet(obj, "climax")),
    AndAlso(isResultItem(OptGet(obj, "closing")),
    AndAlso(OptGet(obj, "general"),
    AndAlso(isResultItem(OptGet(obj, "general")),
            JBool(TypeOf(OptGet(OptGet(obj, "general"), "summary")) = "string")))))))))

(***************************************************************************)
(* Strings are sequences of one-character strings.                        *)
(***************************************************************************)
\* the pieces of s between the characters of the set separators, one more
\* than there are such characters
SplitOn(s, separators) ==
    LET at == {p \in DOMAIN s : s[p] \in separators}
        n == Cardinality(at)
        pos(k) == IF k = 0 THEN 0
                  ELSE IF k = n + 1 THEN Len(s) + 1
                  ELSE CHOOSE p \in at : Cardinality({q \in at : q < p}) = k - 1
    IN [k \in 1..(n + 1) |-> SubSeq(s, pos(k - 1) + 1, pos(k) - 1)]
\* s.split(" ")
Split(s) == SplitOn(s, {" "})

RECURSIVE Join(_)
\* words.join(" ")
Join(words) ==
    IF words = <<>> THEN <<>>
    ELSE IF Len(words) = 1 THEN words[1]
    ELSE LET half == Len(words) \div 2
         IN Join(SubSeq(words, 1, half)) \o <<" ">>
            \o Join(SubSeq(words, half + 1, Len(words)))

SliceInclusive(words, from, to) ==
    LET hi == IF to + 1 > Len(words) THEN Len(words) ELSE to + 1 IN
    IF hi <= from THEN <<>> ELSE [i \in 1..(hi - from) |-> words[from + i]]

\* words.slice(from, to), with 0-based bounds as in JavaScript
Slice(words, from, to) ==
    LET hi == IF to > Len(words) THEN Len(words) ELSE to IN
    IF hi <= from THEN <<>> ELSE [i \in 1..(hi - from) |-> words[from + i]]

partNames == <<"opening", "setup", "main", "climax", "closing">>

(***************************************************************************)
(* categorizeFrames.  A frame is [id, timestamp, url]; timestamps are in  *)
(* tenths of a second.                                                     *)
(***************************************************************************)
RECURSIVE MaxTimestampPlusOne(_, _, _)
MaxTimestampPlusOne(frames, i, max) ==
    IF i > Len(frames) THEN max + 1
    ELSE MaxTimestampPlusOne(frames, i + 1,
             IF frames[i].timestamp > max THEN frames[i].timestamp ELSE max)

RECURSIVE MaxTimestampFrom(_, _, _)
\* the reduce of line 52, from frame i on
MaxTimestampFrom(frames, i, max) ==
    IF i > Len(frames) THEN max
    ELSE MaxTimestampFrom(frames, i + 1,
             IF frames[i].timestamp > max THEN frames[i].timestamp ELSE max)

BucketOfExclusive(timestamp, maxTimestamp) ==
    IF maxTimestamp = 0
    THEN (IF timestamp < 0 THEN "opening" ELSE "closing")
    ELSE IF timestamp * 100 < 10 * maxTimestamp THEN "opening"
    ELSE IF timestamp * 100 < 20 * maxTimestamp THEN "setup"
    ELSE IF timestamp * 100 < 60 * maxTimestamp THEN "main"
    ELSE IF timestamp * 100 < 90 * maxTimestamp THEN "climax"
    ELSE "closing"

\* the branch of lines 62-67 a frame takes.  timestamp / 0 is NaN for a
\* timestamp of 0 (every comparison with NaN is false) and -Infinity for a
\* negative one.
BucketOf(timestamp, maxTimestamp) ==
    IF maxTimestamp = 0
    THEN (IF timestamp < 0 THEN "opening" ELSE "closing")
    ELSE IF timestamp * 100 <= 10 * maxTimestamp THEN "opening"
    ELSE IF timestamp * 100 <= 20 * maxTimestamp THEN "setup"
    ELSE IF timestamp * 100 <= 60 * maxTimestamp THEN "main"
    ELSE IF timestamp * 100 <= 90 * maxTimestamp THEN "climax"
    ELSE "closing"

RECURSIVE PushAllReversed(_, _, _, _)
PushAllReversed(frames, i, max, name) ==
    IF i > Len(frames) THEN <<>>
    ELSE PushAllReversed(frames, i + 1, max, name)
         \o (IF BucketOf(frames[i].timestamp, max) = name
             THEN <<frames[i]>> ELSE <<>>)

RECURSIVE PushAll(_, _, _, _)
\* the frames of frames[i..] that fall into bucket `name`, in order
PushAll(frames, i, max, name) ==
    IF i > Len(frames) THEN <<>>
    ELSE (IF BucketOf(frames[i].timestamp, max) = name
          THEN <<frames[i]>> ELSE <<>>) \o PushAll(frames, i + 1, max, name)

categorizeFrames(frames) ==
    IF Len(frames) = 0
    THEN [opening |-> <<>>, setup |-> <<>>, main |-> <<>>, climax |-> <<>>,
          closing |-> <<>>, maxTimestamp |-> 0]
    ELSE LET maxTimestamp == MaxTimestampFrom(frames, 1, 0) IN
         [opening |-> PushAll(frames, 1, maxTimestamp, "opening"),
          setup |-> PushAll(frames, 1, maxTimestamp, "setup"),
          main |-> PushAll(frames, 1, maxTimestamp, "main"),
          climax |-> PushAll(frames, 1, maxTimestamp, "climax"),
          closing |-> PushAll(frames, 1, maxTimestamp, "closing"),
          maxTimestamp |-> maxTimestamp]

(***************************************************************************)
(* splitTranscript                                                         *)
(***************************************************************************)
\* the <<count, total, n>> with total <= 49 and n <= 49 for which the double
\* (count / total) * n is below the whole number count * n / total: the
\* quotient is rounded to a double before it is multiplied
RoundsBelow ==
    {<<15, 22, 22>>, <<15, 22, 44>>, <<13, 23, 23>>, <<13, 23, 46>>,
     <<15, 26, 26>>, <<31, 39, 39>>, <<23, 43, 43>>, <<31, 43, 43>>,
     <<30, 44, 22>>, <<15, 44, 44>>, <<30, 44, 44>>, <<13, 45, 45>>,
     <<26, 45, 45>>, <<26, 46, 23>>, <<13, 46, 46>>, <<26, 46, 46>>,
     <<3, 47, 47>>, <<6, 47, 47>>, <<12, 47, 47>>, <<24, 47, 47>>,
     <<31, 47, 47>>, <<1, 49, 49>>, <<2, 49, 49>>, <<4, 49, 49>>,
     <<8, 49, 49>>, <<16, 49, 49>>, <<27, 49, 49>>, <<32, 49, 49>>}

\* Math.floor((count / total) * n), in the doubles of JavaScript
Take(count, total, n) ==
    IF <<count, total, n>> \in RoundsBelow
    THEN (count * n) \div total - 1
    ELSE (count * n) \div total

CursorAtStart(categories, total, n, k) == 0

RECURSIVE CursorAt(_, _, _, _)
\* the cursor before the k-th key of the loop of lines 95-100
CursorAt(categories, total, n, k) ==
    IF k = 1 THEN 0
    ELSE CursorAt(categories, total, n, k - 1)
         + Take(Len(categories[partNames[k - 1]]), total, n)

splitTranscriptWithoutGeneral(transcript, categories) ==
    [name \in {"opening", "setup", "main", "climax", "closing", "general"} |-> <<>>]

splitTranscript(transcript, categories) ==
    LET total == Len(categories.opening) + Len(categories.setup)
                 + Len(categories.main) + Len(categories.climax)
                 + Len(categories.closing)
    IN IF total = 0
       THEN [opening |-> <<>>, setup |-> <<>>, main |-> <<>>, climax |-> <<>>,
             closing |-> <<>>, general |-> transcript]
       ELSE LET words == Split(transcript)
                part(k) ==
                    LET cursor == CursorAt(categories, total, Len(words), k)
                        take == Take(Len(categories[partNames[k]]), total, Len(words))
                    IN Join(Slice(words, cursor, cursor + take))
            IN [opening |-> part(1), setup |-> part(2), main |-> part(3),
                climax |-> part(4), closing |-> part(5), general |-> transcript]

(***************************************************************************)
(* The prompts, as the values interpolated into their templates.          *)
(***************************************************************************)
buildPrompt(segmentName, segmentAudio, segmentFrames) ==
    [segment |-> segmentName,
     transcript |-> segmentAudio,
     urls |-> [i \in DOMAIN segmentFrames |-> segmentFrames[i].url]]

(***************************************************************************)
(* Local paths.  uploads/<random name> is multer's file of one request;   *)
(* the temp/ names carry Date.now() of the moment they were made, except  *)
(* temp/audio-temp.wav.                                                    *)
(***************************************************************************)
Path(kind, req, at, idx) == [kind |-> kind, req |-> req, at |-> at, idx |-> idx]
NoPath == Path("none", "", 0, 0)
inputPath(r) == Path("upload", r, 0, 0)
TempDir == Path("temp", "", 0, 0)
tempAudioPath(at) == Path("audio", "", at, 0)
tempFramesDir(at) == Path("framesdir", "", at, 0)
framePath(at, idx) == Path("frame", "", at, idx)
audioTempPath == Path("audio-temp", "", 0, 0)

(***************************************************************************)
(* What the collaborators may answer.                                      *)
(***************************************************************************)
NoFields == [k \in {} |-> JNull]
GoodItem ==
    JObj([recomendations |-> JArr(<<JStr("x")>>),
          assessmentIndicators |-> JObj([clarity |-> JBool(TRUE)])])
EmptyItem ==
    JObj([recomendations |-> JArr(<<>>), assessmentIndicators |-> JObj(NoFields)])
BadItem ==
    JObj([recomendations |-> JArr(<<JNum(1)>>), assessmentIndicators |-> JObj(NoFields)])
GoodGeneral ==
    JObj([recomendations |-> JArr(<<JStr("x")>>),
          assessmentIndicators |-> JObj([clarity |-> JBool(TRUE)]),
          summary |-> JStr("s")])
EmptyGeneral ==
    JObj([recomendations |-> JArr(<<>>), assessmentIndicators |-> JObj(NoFields),
          summary |-> JStr("")])
\* JSON.parse results of the completion service for a segment prompt
SegmentReplies == {GoodItem, EmptyItem, BadItem}
\* and for the summary prompt
SummaryReplies == {GoodGeneral, EmptyGeneral, GoodItem}
\* data.text of the transcription service (transcribeAudio throws on an empty one)
Transcripts == {<<"a">>, <<"a", " ", "b", " ", "c">>}

(***************************************************************************)
(* An exploration fixes what the outside world does: the requests that   *)
(* arrive, and what the collaborators may answer.                          *)
(***************************************************************************)
\* one request, every answer of the collaborators
Single ==
    [requests |-> {"r1"}, frames |-> 0..MaxFrames, transcripts |-> Transcripts,
     replies |-> SegmentReplies, summaries |-> SummaryReplies,
     unlinkFails |-> FALSE]
\* requests that arrive at any time, well-formed answers of the collaborators
Overlapping ==
    [requests |-> Requests, frames |-> {0, 1},
     transcripts |-> {<<"a", " ", "b", " ", "c">>},
     replies |-> {GoodItem}, summaries |-> {GoodGeneral}, unlinkFails |-> FALSE]
\* one request, to a file system that may refuse to unlink an upload
Faulty ==
    [requests |-> {"r1"}, frames |-> {0, 1},
     transcripts |-> {<<"a", " ", "b", " ", "c">>},
     replies |-> {GoodItem}, summaries |-> {GoodGeneral}, unlinkFails |-> TRUE]

\* seconds between frames, in tenths: Number(settings.interval) || 0.8
usedInterval == 8

(***************************************************************************)
(* State                                                                   *)
(***************************************************************************)
VARIABLES
    files,       \* the local paths that exist
    db,          \* the rows of prisma.data: [identifier, result]
    pc,          \* where the handler of each request stands
    video,       \* the bytes of the uploaded file of each request
    identifier,  \* const identifier
    audio,       \* the extractAndUploadAudio call of each request
    frame,       \* the extractAndUploadFrames call of each request
    transcript,  \* let transcript
    prompts,     \* the prompts of openaiPayloads, by index
    values,      \* the values Promise.all(openaiPayloads) has collected
    inflight,    \* the indexes of openaiPayloads not settled yet
    result,      \* const result
    res,         \* the response sent
    log,         \* the collaborator calls the handler has issued, in order
    arrivedAfter, \* the requests that had been answered when this one arrived
    fnCall       \* a call of one of the helper functions: arguments and result

server == <<files, db, pc, video, identifier, audio, frame, transcript,
            prompts, values, inflight, result, res, log, arrivedAfter>>
vars == <<files, db, pc, video, identifier, audio, frame, transcript,
          prompts, values, inflight, result, res, log, arrivedAfter, fnCall>>

NoDigest == [alg |-> "none", of |-> NoVideo]
NoTask == [pc |-> "none", path |-> NoPath]
NoFrames == [pc |-> "none", dir |-> NoPath, listing |-> <<>>, values |-> <<>>,
             inflight |-> {}]
NoPayload == [result |-> JUndefined, audio |-> [url |-> NoPath],
              frames |-> categorizeFrames(<<>>)]
NoResponse == [status |-> 0, payload |-> NoPayload, error |-> ""]
PendingFrame == [id |-> -1, timestamp |-> 0, url |-> NoPath]
PendingReply == [to |-> "pending", json |-> JUndefined]
NoCall == [fn |-> "none"]

\* no request has arrived
Listening ==
    /\ files = {}
    /\ pc = [r \in Requests |-> "idle"]
    /\ video = [r \in Requests |-> NoVideo]
    /\ identifier = [r \in Requests |-> NoDigest]
    /\ audio = [r \in Requests |-> NoTask]
    /\ frame = [r \in Requests |-> NoFrames]
    /\ transcript = [r \in Requests |-> <<>>]
    /\ prompts = [r \in Requests |-> <<>>]
    /\ values = [r \in Requests |-> <<>>]
    /\ inflight = [r \in Requests |-> {}]
    /\ result = [r \in Requests |-> JUndefined]
    /\ res = [r \in Requests |-> NoResponse]
    /\ log = [r \in Requests |-> <<>>]
    /\ arrivedAfter = [r \in Requests |-> {}]

Init == Listening /\ db = {} /\ fnCall = NoCall

(***************************************************************************)
(* Helpers of the handler                                                  *)
(***************************************************************************)
\* the bytes a read stream of filePath delivers
ReadFile(filePath) == video[filePath.req]
Sha256(bytes) == [alg |-> "sha256", of |-> bytes]

getFileHashOfName(filePath) == Sha256(filePath.req)

\* getFileHash(filePath, "sha256"), when the stream ends
getFileHash(filePath) == Sha256(ReadFile(filePath))

\* prisma.data.findUnique({ where: { identifier } }): the rows found
findUnique(id) == {row \in db : row.identifier = id}

RefusedNever(id) == FALSE

\* prisma.data.create refuses a row whose unique identifier is in the table
Refused(id) == findUnique(id) # {}

CacheHitNever(existing) == FALSE

\* if (existing)
CacheHit(existing) == existing # {}

\* Date.now(): a millisecond not before any it has returned
DateNow ==
    {at \in 0..MaxClock :
        \A q \in Requests : audio[q].pc # "none" => audio[q].path.at <= at}

RejectsNothing(doc) == FALSE

\* if (!isOpenAIResponseResult(result)), line 458
Rejects(doc) == ~Truthy(isOpenAIResponseResult(doc))

audioDataWithTranscript(r) == [url |-> audio[r].path, transcript |-> <<"a">>]

\* what extractAndUploadAudio returns (lines 228-237): no transcript field
audioData(r) == [url |-> audio[r].path]
HasTranscript(data) == "transcript" \in DOMAIN data

\* framesData.frames
framesOf(r) == frame[r].values

PromiseAllPush(array, idx, v) ==
    LET free == {i \in DOMAIN array : array[i] \in {PendingFrame, PendingReply}}
        first == CHOOSE i \in free : \A j \in free : i <= j
    IN [array EXCEPT ![first] = v]

\* Promise.all keeps the value of its idx-th promise at index idx
PromiseAllResolve(array, idx, v) == [array EXCEPT ![idx] = v]

PromiseAllSettled(a, f) ==
    IF {a, f} \subseteq {"ok", "failed"} THEN "fulfilled" ELSE "pending"

\* Promise.all([extractAndUploadAudio(..), extractAndUploadFrames(..)]), from
\* the states of its two promises
PromiseAll2(a, f) ==
    IF a = "failed" \/ f = "failed" THEN "rejected"
    ELSE IF a = "ok" /\ f = "ok" THEN "fulfilled"
    ELSE "pending"

PromiseAnyOf(pending) == Cardinality(pending) < Len(partNames)

\* Promise.all(openaiPayloads) is fulfilled when none of its promises is pending
PromiseAllOf(pending) == pending = {}

RECURSIVE Ascending(_)
\* the members of a set of numbers, in increasing order
Ascending(S) ==
    IF S = {} THEN <<>>
    ELSE LET m == CHOOSE x \in S : \A y \in S : x <= y
         IN <<m>> \o Ascending(S \ {m})

\* fs.readdirSync(tempFramesDir).filter(..), then path.join(tempFramesDir, file)
readdirSync(fs, dir) ==
    LET idxs == Ascending({p.idx : p \in {q \in fs : q.kind = "frame" /\ q.at = dir.at}})
    IN [i \in DOMAIN idxs |-> framePath(dir.at, idxs[i])]

Range(seq) == {seq[i] : i \in DOMAIN seq}

\* the handler's locals go out of scope when it returns
Forget(r) ==
    /\ transcript' = [transcript EXCEPT ![r] = <<>>]
    /\ prompts' = [prompts EXCEPT ![r] = <<>>]
    /\ values' = [values EXCEPT ![r] = <<>>]
    /\ inflight' = [inflight EXCEPT ![r] = {}]
    /\ result' = [result EXCEPT ![r] = JUndefined]

locals == <<transcript, prompts, values, inflight, result>>

\* if (fs.existsSync(p)) fs.unlinkSync(p): the files it leaves, and whether
\* it threw (the file system may refuse to unlink an upload that exists)
unlinkSync(fs, p, env) ==
    {[threw |-> FALSE, files |-> fs \ {p}]}
    \cup (IF env.unlinkFails /\ p \in fs
          THEN {[threw |-> TRUE, files |-> fs]} ELSE {})

\* the line console.error(error) writes
ErrorLogged(message) == "console.error: " \o message

\* the promise of the async handler rejects and the handler has no other
\* catch: the router leaves the request unanswered (express 4) or hands the
\* error to the default error handler (express 5)
Unhandled(r, message) ==
    {res[r], [status |-> 500, payload |-> NoPayload, error |-> message]}

CatchKeepingUpload(r, message, fs, env) ==
    /\ files' = fs
    /\ res' = [res EXCEPT ![r] =
                  [status |-> 500, payload |-> NoPayload, error |-> message]]
    /\ log' = [log EXCEPT ![r] = Append(@, ErrorLogged(message))]
    /\ pc' = [pc EXCEPT ![r] = "done"]
    /\ Forget(r)

\* the catch block (lines 474-480), entered with the local files fs
Catch(r, message, fs, env) ==
    /\ \E u \in unlinkSync(fs, inputPath(r), env) :
          /\ files' = u.files
          /\ IF u.threw
             THEN \E answer \in Unhandled(r, "EPERM") :
                     res' = [res EXCEPT ![r] = answer]
             ELSE res' = [res EXCEPT ![r] =
                      [status |-> 500, payload |-> NoPayload, error |-> message]]
    /\ log' = [log EXCEPT ![r] = Append(@, ErrorLogged(message))]
    /\ pc' = [pc EXCEPT ![r] = "done"]
    /\ Forget(r)

\* lines 393-410: categorize, split, and issue the five segment calls
Segmenting(r, text, fs) ==
    LET categories == categorizeFrames(framesOf(r))
        audioSegments == splitTranscript(text, categories)
    IN /\ files' = fs
       /\ transcript' = [transcript EXCEPT ![r] = text]
       /\ prompts' = [prompts EXCEPT ![r] =
              [k \in DOMAIN partNames |->
                  buildPrompt(partNames[k], audioSegments[partNames[k]],
                              categories[partNames[k]])]]
       /\ values' = [values EXCEPT ![r] = [k \in DOMAIN partNames |-> PendingReply]]
       /\ inflight' = [inflight EXCEPT ![r] = DOMAIN partNames]
       /\ pc' = [pc EXCEPT ![r] = "evaluating"]
       /\ log' = [log EXCEPT ![r] =
              @ \o [k \in DOMAIN partNames |-> "gptJson"]]
       /\ UNCHANGED <<result, res>>

\* lines 371-391, up to the first await: the upload is unlinked, and the
\* transcript is taken from audioData or the audio is fetched
AfterExtraction(r, fs, env) ==
    \E u \in unlinkSync(fs, inputPath(r), env) :
       IF u.threw
       THEN Catch(r, "EPERM", fs, env)
       ELSE IF HasTranscript(audioData(r))
       THEN Segmenting(r, audioData(r).transcript, u.files)
       ELSE /\ files' = u.files \cup {TempDir}
            /\ pc' = [pc EXCEPT ![r] = "fetching"]
            /\ log' = [log EXCEPT ![r] = Append(@, "fetch")]
            /\ UNCHANGED <<locals, res>>

\* one of the two extraction tasks of r has moved to state a (audio) or
\* f (frames), leaving the local files fs: what the handler does
TaskSettled(r, a, f, message, fs, env) ==
    IF pc[r] = "extracting" /\ PromiseAll2(a, f) = "rejected"
    THEN Catch(r, message, fs, env)
    ELSE IF pc[r] = "extracting" /\ PromiseAll2(a, f) = "fulfilled"
    THEN AfterExtraction(r, fs, env)
    ELSE /\ files' = fs
         /\ UNCHANGED <<pc, res, log, locals>>

(***************************************************************************)
(* The handler of POST /api/main                                           *)
(***************************************************************************)
\* multer has stored the upload (or there is none); lines 334-342
Receive(r, env) ==
    /\ pc[r] = "idle"
    /\ arrivedAfter' = [arrivedAfter EXCEPT ![r] = {q \in Requests : pc[q] = "done"}]
    /\ \E v \in Contents \cup {NoVideo} :
          IF v = NoVideo
          THEN /\ res' = [res EXCEPT ![r] =
                     [status |-> 400, payload |-> NoPayload,
                      error |-> "No video file uploaded"]]
               /\ pc' = [pc EXCEPT ![r] = "done"]
               /\ UNCHANGED <<files, video, log>>
          ELSE /\ video' = [video EXCEPT ![r] = v]
               /\ files' = files \cup {inputPath(r)}
               /\ pc' = [pc EXCEPT ![r] = "hashing"]
               /\ log' = [log EXCEPT ![r] = Append(@, "getFileHash")]
               /\ UNCHANGED res
    /\ UNCHANGED <<db, identifier, audio, frame, locals>>

\* await getFileHash settles; lines 342-348
HashDone(r, env) ==
    /\ pc[r] = "hashing"
    /\ \/ /\ inputPath(r) \in files
          /\ identifier' = [identifier EXCEPT ![r] = getFileHash(inputPath(r))]
          /\ pc' = [pc EXCEPT ![r] = "lookup"]
          /\ log' = [log EXCEPT ![r] = Append(@, "findUnique")]
          /\ UNCHANGED <<files, res, locals>>
       \/ /\ Catch(r, "getFileHash", files, env)
          /\ UNCHANGED identifier
    /\ UNCHANGED <<db, video, audio, frame, arrivedAfter>>

\* await prisma.data.findUnique settles; lines 346-369
LookupDone(r, env) ==
    /\ pc[r] = "lookup"
    /\ \/ /\ Catch(r, "findUnique", files, env)
          /\ UNCHANGED <<audio, frame>>
       \/ LET existing == findUnique(identifier[r]) IN
          IF CacheHit(existing)
          THEN \E u \in unlinkSync(files, inputPath(r), env) :
                  IF u.threw
                  THEN /\ Catch(r, "EPERM", files, env)
                       /\ UNCHANGED <<audio, frame>>
                  ELSE /\ \E row \in existing :
                             res' = [res EXCEPT ![r] =
                                 [status |-> 200, payload |-> row.result,
                                  error |-> ""]]
                       /\ files' = u.files
                       /\ pc' = [pc EXCEPT ![r] = "done"]
                       /\ log' = [log EXCEPT ![r] = Append(@, "hit")]
                       /\ Forget(r)
                       /\ UNCHANGED <<audio, frame>>
          ELSE /\ \E at \in DateNow :
                     /\ audio' = [audio EXCEPT ![r] =
                            [pc |-> "ffmpeg", path |-> tempAudioPath(at)]]
                     /\ frame' = [frame EXCEPT ![r] =
                            [NoFrames EXCEPT !.pc = "probe",
                                             !.dir = tempFramesDir(at)]]
                     /\ files' = files \cup {TempDir, tempFramesDir(at)}
               /\ pc' = [pc EXCEPT ![r] = "extracting"]
               /\ log' = [log EXCEPT ![r] =
                     @ \o <<(IF existing = {} THEN "miss" ELSE "hit"),
                            "extractAndUploadAudio", "extractAndUploadFrames">>]
               /\ UNCHANGED <<res, locals>>
    /\ UNCHANGED <<db, video, identifier, arrivedAfter>>

(***************************************************************************)
(* extractAndUploadAudio, lines 180-238                                    *)
(***************************************************************************)
AudioMoves(r, to, message, fs, env) ==
    /\ audio' = [audio EXCEPT ![r].pc = to]
    /\ TaskSettled(r, to, frame[r].pc, message, fs, env)
    /\ UNCHANGED <<db, video, identifier, frame, arrivedAfter>>

\* ffmpeg .save(tempAudioPath) ends or fails; lines 187-195
AudioFfmpegDone(r, env) ==
    /\ audio[r].pc = "ffmpeg"
    /\ \/ AudioMoves(r, "probe", "", files \cup {audio[r].path}, env)
       \/ AudioMoves(r, "failed", "ffmpeg audio", files, env)

\* ffprobe of the temp audio; lines 198-215
AudioProbeDone(r, env) ==
    /\ audio[r].pc = "probe"
    /\ \/ AudioMoves(r, "upload", "", files, env)
       \/ AudioMoves(r, "failed", "ffprobe audio", files, env)

\* cloudinary upload of the temp audio, then its unlink; lines 218-237
AudioUploadDone(r, env) ==
    /\ audio[r].pc = "upload"
    /\ \/ AudioMoves(r, "ok", "", files \ {audio[r].path}, env)
       \/ AudioMoves(r, "failed", "upload audio", files, env)

(***************************************************************************)
(* extractAndUploadFrames, lines 244-329                                   *)
(***************************************************************************)
FrameMoves(r, next, message, fs, env) ==
    /\ frame' = [frame EXCEPT ![r] = next]
    /\ TaskSettled(r, audio[r].pc, next.pc, message, fs, env)
    /\ UNCHANGED <<db, video, identifier, audio, arrivedAfter>>

\* ffprobe of the upload; lines 251-258
FrameProbeDone(r, env) ==
    /\ frame[r].pc = "probe"
    /\ \/ FrameMoves(r, [frame[r] EXCEPT !.pc = "ffmpeg"], "", files, env)
       \/ \E message \in {"ffprobe video", "No video stream found"} :
             FrameMoves(r, [frame[r] EXCEPT !.pc = "failed"], message, files, env)

\* lines 308-313: the listed files are unlinked, the directory is removed;
\* rmdirSync throws when the directory is not empty
FramesCleanedUp(r, fr, fs, env) ==
    LET left == fs \ Range(fr.listing) IN
    IF readdirSync(left, fr.dir) # <<>>
    THEN FrameMoves(r, [fr EXCEPT !.pc = "failed"], "ENOTEMPTY", left, env)
    ELSE FrameMoves(r, [fr EXCEPT !.pc = "ok"], "", left \ {fr.dir}, env)

\* ffmpeg has written the frame files, and the uploads start; lines 277-306
FrameFfmpegDone(r, env) ==
    /\ frame[r].pc = "ffmpeg"
    /\ \/ \E n \in env.frames :
             LET fs == files \cup {framePath(frame[r].dir.at, k) : k \in 1..n}
                 listing == readdirSync(fs, frame[r].dir)
                 fr == [frame[r] EXCEPT
                           !.pc = "upload", !.listing = listing,
                           !.values = [i \in DOMAIN listing |-> PendingFrame],
                           !.inflight = DOMAIN listing]
             IN IF listing = <<>>
                THEN FramesCleanedUp(r, fr, fs, env)
                ELSE FrameMoves(r, fr, "", fs, env)
       \/ FrameMoves(r, [frame[r] EXCEPT !.pc = "failed"], "ffmpeg frames", files, env)

\* one cloudinary upload of a frame settles; lines 290-313
FrameUploadDone(r, idx, env) ==
    /\ idx \in frame[r].inflight
    /\ \/ LET fr == [frame[r] EXCEPT
                        !.inflight = @ \ {idx},
                        !.values =
                            IF frame[r].pc = "upload"
                            THEN PromiseAllResolve(@, idx,
                                     [id |-> idx - 1,
                                      timestamp |-> (idx - 1) * usedInterval,
                                      url |-> frame[r].listing[idx]])
                            ELSE @]
          IN IF fr.pc = "upload" /\ fr.inflight = {}
             THEN FramesCleanedUp(r, fr, files, env)
             ELSE FrameMoves(r, fr, "", files, env)
       \/ FrameMoves(r, [frame[r] EXCEPT !.inflight = @ \ {idx}, !.pc = "failed"],
                     "upload frame", files, env)

(***************************************************************************)
(* The handler after the extraction                                        *)
(***************************************************************************)
\* await fetch(audioUrl) settles, and the write stream is created; 382-388
FetchDone(r, env) ==
    /\ pc[r] = "fetching"
    /\ \/ /\ files' = files \cup {audioTempPath}
          /\ pc' = [pc EXCEPT ![r] = "downloading"]
          /\ UNCHANGED <<res, log, locals>>
       \/ Catch(r, "fetch", files, env)
    /\ UNCHANGED <<db, video, identifier, audio, frame, arrivedAfter>>

\* the download finishes, and transcribeAudio is called; lines 384-389.
\* The promise of lines 384-388 is resolved by "finish" of outStream and
\* rejected by "error" of audioRes.body; an "error" of outStream settles
\* nothing, and the handler stays at its await
DownloadDone(r, env) ==
    /\ pc[r] = "downloading"
    /\ \/ /\ pc' = [pc EXCEPT ![r] = "transcribing"]
          /\ log' = [log EXCEPT ![r] = Append(@, "transcribeAudio")]
          /\ UNCHANGED <<files, res, locals>>
       \/ Catch(r, "download", files, env)
       \/ /\ pc' = [pc EXCEPT ![r] = "never settled"]
          /\ UNCHANGED <<files, res, log, locals>>
    /\ UNCHANGED <<db, video, identifier, audio, frame, arrivedAfter>>

\* await transcribeAudio settles; lines 389-410
TranscribeDone(r, env) ==
    /\ pc[r] = "transcribing"
    /\ \/ /\ audioTempPath \in files
          /\ \E text \in env.transcripts : Segmenting(r, text, files \ {audioTempPath})
       \/ Catch(r, "transcribeAudio", files, env)
    /\ UNCHANGED <<db, video, identifier, audio, frame, arrivedAfter>>

\* one of the five segment calls settles; lines 408-445
GptDone(r, idx, env) ==
    /\ pc[r] = "evaluating"
    /\ idx \in inflight[r]
    /\ \/ /\ \E json \in env.replies :
                values' = [values EXCEPT ![r] =
                    PromiseAllResolve(@, idx,
                        [to |-> prompts[r][idx].segment, json |-> json])]
          /\ inflight' = [inflight EXCEPT ![r] = @ \ {idx}]
          /\ IF PromiseAllOf(inflight'[r])
             THEN /\ pc' = [pc EXCEPT ![r] = "summarizing"]
                  /\ log' = [log EXCEPT ![r] = Append(@, "gptJson summary")]
             ELSE UNCHANGED <<pc, log>>
          /\ UNCHANGED <<files, transcript, prompts, result, res>>
       \/ Catch(r, "gptJson segment", files, env)
    /\ UNCHANGED <<db, video, identifier, audio, frame, arrivedAfter>>

\* const result = { general, opening, setup, main, climax, closing }, with
\* [opening, setup, main, climax, closing] the array of Promise.all
Assemble(general, array) ==
    JObj([general |-> general, opening |-> array[1].json, setup |-> array[2].json,
          main |-> array[3].json, climax |-> array[4].json,
          closing |-> array[5].json])

\* the summary call settles, the result is validated and saved; 442-471
SummaryDone(r, env) ==
    /\ pc[r] = "summarizing"
    /\ \/ \E general \in env.summaries :
             LET doc == Assemble(general, values[r]) IN
             IF Rejects(doc)
             THEN Catch(r, "Invalid result structure from OpenAI", files, env)
             ELSE /\ result' = [result EXCEPT ![r] = doc]
                  /\ pc' = [pc EXCEPT ![r] = "creating"]
                  /\ log' = [log EXCEPT ![r] = Append(@, "create")]
                  /\ UNCHANGED <<files, transcript, prompts, values, inflight, res>>
       \/ Catch(r, "gptJson summary", files, env)
    /\ UNCHANGED <<db, video, identifier, audio, frame, arrivedAfter>>

\* const data = { result, audio: audioData, frames: categories }
dataOf(r) ==
    [result |-> result[r], audio |-> audioData(r),
     frames |-> categorizeFrames(framesOf(r))]

\* await prisma.data.create settles: identifier is a unique key of the
\* table (findUnique takes it as its where), so that a second row with
\* the same identifier is refused; lines 466-473
CreateDone(r, env) ==
    /\ pc[r] = "creating"
    /\ \/ IF Refused(identifier[r])
          THEN /\ Catch(r, "Unique constraint failed", files, env)
               /\ UNCHANGED db
          ELSE LET created == [identifier |-> identifier[r], result |-> dataOf(r)] IN
               /\ db' = db \cup {created}
               /\ res' = [res EXCEPT ![r] =
                      [status |-> 200, payload |-> created.result, error |-> ""]]
               /\ pc' = [pc EXCEPT ![r] = "done"]
               /\ Forget(r)
               /\ UNCHANGED <<files, log>>
       \/ /\ Catch(r, "create", files, env)
          /\ UNCHANGED db
    /\ UNCHANGED <<video, identifier, audio, frame, arrivedAfter>>

Step(env) ==
    /\ UNCHANGED fnCall
    /\ \E r \in env.requests :
          \/ Receive(r, env)
          \/ HashDone(r, env)
          \/ LookupDone(r, env)
          \/ AudioFfmpegDone(r, env)
          \/ AudioProbeDone(r, env)
          \/ AudioUploadDone(r, env)
          \/ FrameProbeDone(r, env)
          \/ FrameFfmpegDone(r, env)
          \/ \E idx \in 1..(MaxFrames + 1) : FrameUploadDone(r, idx, env)
          \/ FetchDone(r, env)
          \/ DownloadDone(r, env)
          \/ TranscribeDone(r, env)
          \/ \E idx \in DOMAIN partNames : GptDone(r, idx, env)
          \/ SummaryDone(r, env)
          \/ CreateDone(r, env)

Next == Step(Single)
NextOverlapping == Step(Overlapping)

NextFaulty == Step(Faulty)

\* the table has a row of an earlier run of the server, for the bytes "v1"
StoredRow ==
    [identifier |-> Sha256("v1"),
     result |-> [result |-> Assemble(GoodGeneral,
                                [k \in DOMAIN partNames |->
                                    [to |-> partNames[k], json |-> GoodItem]]),
                 audio |-> [url |-> tempAudioPath(0)],
                 frames |-> categorizeFrames(<<>>)]]
InitFaulty == Listening /\ db = {StoredRow} /\ fnCall = NoCall

\* one request, whatever the collaborators answer
Spec == Init /\ [][Next]_vars
\* two requests, arriving at any time
SpecOverlapping == Init /\ [][NextOverlapping]_vars
\* one request, and every call, stream and file operation that is under way
\* comes to its end
SpecLive == Init /\ [][Next]_vars /\ WF_vars(Next)
\* one request, deletions of the upload may fail
SpecFaulty == InitFaulty /\ [][NextFaulty]_vars

(***************************************************************************)
(* The helper functions on their own: categorizeFrames, splitTranscript    *)
(* and isOpenAIResponseResult are called with arguments of bounded sets    *)
(* and return.  Timestamps are whole numbers: for whole numbers below 400  *)
(* the double arithmetic of line 62 decides the four comparisons as the    *)
(* exact quotient does.  splitTranscript is called as well with 49 words   *)
(* and 49 frames, where the doubles of line 97 differ from the exact       *)
(* quotient.                                                               *)
(***************************************************************************)
\* the longest array of frames passed to categorizeFrames
MaxLen == 3
\* the largest timestamp of a frame
MaxTimestamp == 10
\* the most frames of one category passed to splitTranscript
MaxCount == 2
\* the most words of a transcript
MaxWords == 10

\* frames with the given timestamps, numbered as line 300 numbers them
FramesAt(stamps) ==
    [i \in DOMAIN stamps |->
        [id |-> i - 1, timestamp |-> stamps[i], url |-> framePath(0, i)]]
ExampleFrames == FramesAt(<<0, 1, 5, 9, 10>>)
FrameInputs ==
    {FramesAt(stamps) :
        stamps \in UNION {[1..n -> 0..MaxTimestamp] : n \in 0..MaxLen}}
    \cup {ExampleFrames}

Letters == <<"a", "b", "c", "d", "e", "f", "g", "h", "i", "j", "k", "l">>
\* the first n letters, as words of one letter
Spelled(n) == Join([i \in 1..n |-> <<Letters[i]>>])
ExampleTranscript == Spelled(10)
\* 49 words of one letter
LongTranscript == Join([i \in 1..49 |-> <<"a">>])
TranscriptInputs ==
    {Spelled(n) : n \in 0..MaxWords}
    \cup {LongTranscript}
    \cup {<<"a", " ", " ", "b">>, <<" ", "a">>, <<"a", " ">>, <<"a", "\t", "b">>}

\* categories with counts[k] frames in the k-th category
CategoriesOf(counts) ==
    [name \in {"opening", "setup", "main", "climax", "closing", "maxTimestamp"} |->
        IF name = "maxTimestamp" THEN 0
        ELSE LET k == CHOOSE i \in DOMAIN partNames : partNames[i] = name
             IN FramesAt([i \in 1..counts[k] |-> 0])]
ExampleCounts == <<1, 1, 2, 0, 0>>
\* 49 frames in three and in five categories
LongCounts == {<<1, 16, 32, 0, 0>>, <<1, 8, 8, 16, 16>>}
CategoryInputs ==
    {CategoriesOf(counts) : counts \in [DOMAIN partNames -> 0..MaxCount]}
    \cup {CategoriesOf(counts) : counts \in LongCounts}

\* values as JSON.parse returns them, and what the handler may build of them
OddItems ==
    {JUndefined, JNull, JStr("x"), JNum(1), JBool(TRUE), JArr(<<>>), JObj(NoFields),
     JObj([recomendations |-> JArr(<<JStr("x")>>)]),
     JObj([assessmentIndicators |-> JObj(NoFields)]),
     JObj([recomendations |-> JObj(NoFields), assessmentIndicators |-> JObj(NoFields)]),
     JObj([recomendations |-> JArr(<<>>), assessmentIndicators |-> JNull]),
     JObj([recomendations |-> JArr(<<>>), assessmentIndicators |-> JArr(<<>>)]),
     JObj([recomendations |-> JArr(<<>>), assessmentIndicators |-> JStr("x")]),
     JObj([recomendations |-> JArr(<<JStr("x"), JNull>>),
           assessmentIndicators |-> JObj(NoFields)]),
     JObj([recomendations |-> JArr(<<>>),
           assessmentIndicators |-> JObj([clarity |-> JBool(FALSE),
                                          pace |-> JStr("true")])])}
NumericSummary ==
    JObj([recomendations |-> JArr(<<>>), assessmentIndicators |-> JObj(NoFields),
          summary |-> JNum(1)])
Document(general, items) ==
    JObj([general |-> general, opening |-> items[1], setup |-> items[2],
          main |-> items[3], climax |-> items[4], closing |-> items[5]])
ValueInputs ==
    {Document(general, items) :
        general \in {GoodGeneral, EmptyGeneral, GoodItem, NumericSummary, JNull},
        items \in [DOMAIN partNames -> {GoodItem, EmptyItem, BadItem, JNull}]}
    \cup {Document(GoodGeneral, [k \in DOMAIN partNames |->
                                    IF k = at THEN item ELSE GoodItem]) :
              item \in OddItems, at \in {1, 5}}
    \cup {Document(item, [k \in DOMAIN partNames |-> GoodItem]) : item \in OddItems}
    \cup {JObj([opening |-> GoodItem, general |-> GoodGeneral])}
    \cup {JUndefined, JNull, JStr(""), JStr("x"), JNum(0), JNum(1), JBool(FALSE),
          JBool(TRUE), JArr(<<>>), JObj(NoFields)}

NotReturned == [t |-> "pending"]
Calls ==
    {[fn |-> "categorizeFrames", frames |-> frames, ret |-> NotReturned] :
        frames \in FrameInputs}
    \cup {[fn |-> "splitTranscript", transcript |-> text, categories |-> categories,
           ret |-> NotReturned] :
              text \in TranscriptInputs, categories \in CategoryInputs}
    \cup {[fn |-> "isOpenAIResponseResult", obj |-> obj, ret |-> NotReturned] :
              obj \in ValueInputs}

InitCalls == Listening /\ db = {} /\ fnCall \in Calls

Calling(fn) == fnCall.fn = fn /\ fnCall.ret = NotReturned

categorizeFramesReturns ==
    /\ Calling("categorizeFrames")
    /\ fnCall' = [fnCall EXCEPT !.ret = categorizeFrames(fnCall.frames)]
    /\ UNCHANGED server

splitTranscriptReturns ==
    /\ Calling("splitTranscript")
    /\ fnCall' = [fnCall EXCEPT
                     !.ret = splitTranscript(fnCall.transcript, fnCall.categories)]
    /\ UNCHANGED server

isOpenAIResponseResultReturns ==
    /\ Calling("isOpenAIResponseResult")
    /\ fnCall' = [fnCall EXCEPT !.ret = isOpenAIResponseResult(fnCall.obj)]
    /\ UNCHANGED server

NextCalls ==
    \/ categorizeFramesReturns
    \/ splitTranscriptReturns
    \/ isOpenAIResponseResultReturns

\* one call of a helper function, with any of the arguments
SpecCalls == InitCalls /\ [][NextCalls]_vars

(***************************************************************************)
(* Properties                                                              *)
(***************************************************************************)
Issued(r, call) == call \in Range(log[r])
Count(seq, x) == Cardinality({i \in DOMAIN seq : seq[i] = x})
Before(seq, x, y) ==
    \A j \in DOMAIN seq : seq[j] = y => \E i \in 1..(j - 1) : seq[i] = x
Extractions == {"extractAndUploadAudio", "extractAndUploadFrames"}
Collaborations ==
    Extractions \cup {"fetch", "transcribeAudio", "gptJson", "gptJson summary", "create"}

\* C1: when findUnique finds a row for the identifier, the handler answers
\* 200 with that row's result and has issued no extraction, transcription,
\* completion or create call; and an extraction is only ever started after
\* findUnique has come back with no row.
C1_CacheHitShortCircuits ==
    \A r \in Requests :
       /\ Issued(r, "hit") =>
             /\ pc[r] = "done"
             /\ res[r].status = 200
             /\ \E row \in db :
                   row.identifier = identifier[r] /\ res[r].payload = row.result
             /\ Range(log[r]) \cap Collaborations = {}
       /\ \A call \in Extractions : Before(log[r], "miss", call)
       /\ audio[r].pc # "none" \/ frame[r].pc # "none" => Issued(r, "miss")

C1_Witness ==
    \E r \in Requests : Issued(r, "hit") /\ pc[r] = "done" /\ db # {}

\* C2: a request that arrives after a request with the same bytes has been
\* answered 200 computes the same identifier, issues no extraction,
\* transcription, completion or create call, and, once its lookup has come
\* back, is answered 200 with the very payload the first one was answered
\* with, which is the result of the row in the table.
C2_CacheIdempotence ==
    \A r1 \in Requests : \A r2 \in Requests :
       (/\ r1 \in arrivedAfter[r2]
        /\ res[r1].status = 200
        /\ video[r2] = video[r1])
       =>
       /\ identifier[r2] \in {NoDigest, identifier[r1]}
       /\ Range(log[r2]) \cap Collaborations = {}
       /\ (pc[r2] = "done" /\ res[r2].error \notin {"getFileHash", "findUnique"}) =>
             /\ res[r2].status = 200
             /\ res[r2].payload = res[r1].payload
             /\ [identifier |-> identifier[r2], result |-> res[r2].payload] \in db

C2_Witness ==
    \E r1 \in Requests : \E r2 \in Requests :
       /\ r1 \in arrivedAfter[r2]
       /\ res[r1].status = 200 /\ Issued(r1, "create")
       /\ video[r2] = video[r1]
       /\ pc[r2] = "done" /\ res[r2].status = 200

\* C3: every row of the table holds a result that passes
\* isOpenAIResponseResult and is the payload of a request answered 200; a
\* request answered with an error has written no row; and no call is issued
\* a second time.
C3_NoPartialResults ==
    /\ \A row \in db :
          /\ Truthy(isOpenAIResponseResult(row.result.result))
          /\ \E r \in Requests :
                /\ res[r].status = 200 /\ res[r].payload = row.result
                /\ identifier[r] = row.identifier
    /\ \A r \in Requests :
          /\ res[r].status # 200 =>
                ~\E row \in db : row.identifier = identifier[r]
          /\ \A call \in (Collaborations \cup {"getFileHash", "findUnique"}) \ {"gptJson"} :
                Count(log[r], call) <= 1
          /\ Count(log[r], "gptJson") <= Len(partNames)
          /\ pc[r] = "done" => inflight[r] = {}

C3_Witness ==
    \E r \in Requests :
       /\ db # {}
       /\ res[r].status = 200
       /\ Get(Get(res[r].payload.result, "closing"), "recomendations") = JArr(<<>>)

\* C4: when the handler has answered, the uploaded file of its request does
\* not exist.
C4_UploadRemoved ==
    \A r \in Requests : pc[r] = "done" => inputPath(r) \notin files

C4_Witness ==
    \E r \in Requests :
       /\ pc[r] = "done" /\ res[r].status = 500
       /\ Issued(r, "extractAndUploadAudio")
       /\ frame[r].pc \notin {"ok", "failed"}

\* the handler of r has answered and its extraction tasks have settled
Settled(r) ==
    /\ pc[r] = "done"
    /\ audio[r].pc \in {"none", "ok", "failed"}
    /\ frame[r].pc \in {"none", "ok", "failed"}
    /\ frame[r].inflight = {}

\* the local files and directories the run of r has made under temp/
Staged(r) ==
    ({audio[r].path, frame[r].dir} \ {NoPath})
    \cup Range(frame[r].listing)
    \cup (IF Issued(r, "transcribeAudio") \/ pc[r] = "downloading"
          THEN {audioTempPath} ELSE {})

\* C5: when a request has been answered and its tasks have settled, none of
\* the files and directories it made under temp/ exists.
C5_TempArtifactsRemoved ==
    \A r \in Requests : Settled(r) => Staged(r) \cap files = {}

\* the paths under temp/ the run of r is writing, reading or about to delete
InUse(r) ==
    (IF audio[r].pc \in {"ffmpeg", "probe", "upload"} THEN {audio[r].path} ELSE {})
    \cup (IF frame[r].pc \in {"probe", "ffmpeg", "upload"}
          THEN {frame[r].dir} \cup Range(frame[r].listing) ELSE {})
    \cup (IF pc[r] \in {"downloading", "transcribing"} THEN {audioTempPath} ELSE {})

\* C6: two runs never have a path under temp/ in use at the same time.
C6_TempArtifactsExclusive ==
    \A r1 \in Requests : \A r2 \in Requests \ {r1} : InUse(r1) \cap InUse(r2) = {}

\* both requests have the same identifier, have called create, and have
\* been answered
BothCreated(r1, r2) ==
    /\ r1 # r2
    /\ identifier[r1] = identifier[r2]
    /\ Issued(r1, "create") /\ Issued(r2, "create")
    /\ pc[r1] = "done" /\ pc[r2] = "done"

C8_ExtractionJoin ==
    \A r \in Requests :
       /\ audio[r].pc = "none" <=> frame[r].pc = "none"
       /\ (Issued(r, "fetch") \/ pc[r] \in {"fetching", "downloading", "transcribing",
                                            "evaluating", "summarizing", "creating"})
             => audio[r].pc = "ok" /\ frame[r].pc = "ok"
       /\ (audio[r].pc = "failed" \/ frame[r].pc = "failed")
             => pc[r] = "done" /\ res[r].status = 500

C8_Witness ==
    \E r \in Requests :
       /\ frame[r].pc = "failed" /\ audio[r].pc = "upload"
       /\ pc[r] = "done" /\ res[r].status = 500

\* C9: the summary call has been issued only if every one of the five
\* segment calls has fulfilled; a handler that left the evaluation by a
\* failure has not issued it.
C9_SummaryAfterSegments ==
    \A r \in Requests :
       /\ Issued(r, "gptJson summary") =>
             /\ Count(log[r], "gptJson") = Len(partNames)
             /\ pc[r] \in {"summarizing", "creating", "done"}
       /\ pc[r] \in {"summarizing", "creating"} =>
             /\ Issued(r, "gptJson summary")
             /\ inflight[r] = {}
             /\ \A k \in DOMAIN partNames : values[r][k] # PendingReply
       /\ pc[r] = "evaluating" => ~Issued(r, "gptJson summary")
       /\ (pc[r] = "done" /\ res[r].error = "gptJson segment")
             => ~Issued(r, "gptJson summary")

C9_Witness ==
    \E r \in Requests : pc[r] = "summarizing" /\ values[r][1].json = BadItem

\* C10: the five segment calls are issued in one step, the k-th with the
\* prompt built from the k-th segment name, its transcript slice and its
\* frames; whatever the order in which they settle, the value kept at index
\* k is the reply to the k-th prompt, and the field of the final document
\* named after the k-th segment is that reply.
C10_SegmentResultsByName ==
    \A r \in Requests :
       /\ pc[r] \in {"evaluating", "summarizing", "creating"} =>
             LET categories == categorizeFrames(framesOf(r))
                 audioSegments == splitTranscript(transcript[r], categories)
             IN /\ Count(log[r], "gptJson") = Len(partNames)
                /\ DOMAIN values[r] = DOMAIN partNames
                /\ \A k \in DOMAIN partNames :
                      /\ prompts[r][k].segment = partNames[k]
                      /\ prompts[r][k].transcript = audioSegments[partNames[k]]
                      /\ prompts[r][k].urls =
                            [i \in DOMAIN categories[partNames[k]] |->
                                categories[partNames[k]][i].url]
                      /\ (k \in inflight[r]) = (values[r][k] = PendingReply)
                      /\ values[r][k] # PendingReply => values[r][k].to = partNames[k]
       /\ pc[r] = "creating" =>
             \A k \in DOMAIN partNames :
                Get(result[r], partNames[k]) = values[r][k].json

C10_Witness ==
    \E r \in Requests :
       /\ pc[r] = "creating"
       /\ Get(result[r], "opening") # Get(result[r], "closing")

\* the messages of the errors the try block of the handler can throw
ErrorMessages ==
    {"getFileHash", "findUnique", "ffmpeg audio", "ffprobe audio", "upload audio",
     "ffprobe video", "No video stream found", "ffmpeg frames", "upload frame",
     "ENOTEMPTY", "EPERM", "fetch", "download", "transcribeAudio",
     "gptJson segment", "gptJson summary", "Invalid result structure from OpenAI",
     "Unique constraint failed", "create"}

\* C11: a handler that entered its catch block with an error has answered
\* 500 with the message of that error, whether or not the deletion of the
\* upload in the catch block succeeded.
C11_DeletionFailureNotMasking ==
    \A r \in Requests : \A message \in ErrorMessages :
       (pc[r] = "done" /\ Issued(r, ErrorLogged(message)))
       => res[r].status = 500 /\ res[r].error = message

Returned(fn) == fnCall.fn = fn /\ fnCall.ret # NotReturned
\* the <<k, j>> at which frame f stands in the categories c
Places(c, f) ==
    UNION {{<<k, j>> : j \in {i \in DOMAIN c[partNames[k]] : c[partNames[k]][i] = f}} :
              k \in DOMAIN partNames}
PositionIn(frames, f) == CHOOSE i \in DOMAIN frames : frames[i] = f

\* C12: categorizeFrames of a non-empty array returns categories in which
\* every frame of the array stands exactly once, no other frame stands, and
\* the frames of one category stand in the order they have in the array.
C12_BucketsPartition ==
    (Returned("categorizeFrames") /\ fnCall.frames # <<>>) =>
       LET frames == fnCall.frames
           c == fnCall.ret
       IN /\ \A i \in DOMAIN frames : Cardinality(Places(c, frames[i])) = 1
          /\ \A k \in DOMAIN partNames :
                LET bucket == c[partNames[k]] IN
                /\ Len(bucket) <= Len(frames)
                /\ \A j \in DOMAIN bucket : bucket[j] \in Range(frames)
                /\ \A j1 \in DOMAIN bucket : \A j2 \in DOMAIN bucket :
                      j1 < j2 =>
                         PositionIn(frames, bucket[j1]) < PositionIn(frames, bucket[j2])

C12_Witness ==
    /\ Returned("categorizeFrames")
    /\ Len(fnCall.frames) = 3
    /\ fnCall.frames[1].timestamp > fnCall.frames[3].timestamp
    /\ Len(fnCall.ret.opening) = 2

\* percent above Above[name] and at most UpTo[name] is the category name
Above == [opening |-> -1, setup |-> 10, main |-> 20, climax |-> 60, closing |-> 90]
UpTo == [opening |-> 10, setup |-> 20, main |-> 60, climax |-> 90, closing |-> 100]
Stamps(bucket) == [j \in DOMAIN bucket |-> bucket[j].timestamp]

\* C13: with maxTimestamp > 0, a frame stands in opening when
\* timestamp / maxTimestamp * 100 <= 10, else in setup when <= 20, else in
\* main when <= 60, else in climax when <= 90, else in closing; and the
\* timestamps 0, 1, 5, 9, 10 give [0, 1], [], [5], [9], [10].
C13_InclusiveThresholds ==
    (Returned("categorizeFrames") /\ fnCall.ret.maxTimestamp > 0) =>
       LET c == fnCall.ret
           max == c.maxTimestamp
       IN /\ \A i \in DOMAIN fnCall.frames : \A k \in DOMAIN partNames :
                LET f == fnCall.frames[i]
                    name == partNames[k]
                IN (f \in Range(c[name])) <=>
                      /\ Above[name] * max < f.timestamp * 100
                      /\ f.timestamp * 100 <= UpTo[name] * max
          /\ fnCall.frames = ExampleFrames =>
                /\ Stamps(c.opening) = <<0, 1>>
                /\ Stamps(c.setup) = <<>>
                /\ Stamps(c.main) = <<5>>
                /\ Stamps(c.climax) = <<9>>
                /\ Stamps(c.closing) = <<10>>

C13_Witness ==
    /\ Returned("categorizeFrames")
    /\ fnCall.frames = ExampleFrames
    /\ Len(fnCall.ret.climax) = 1

\* C14: categorizeFrames of a non-empty array whose largest timestamp is 0
\* returns all of its frames in opening.
C14_ZeroMaxIsOpening ==
    (/\ Returned("categorizeFrames")
     /\ fnCall.frames # <<>>
     /\ fnCall.ret.maxTimestamp = 0)
    => /\ fnCall.ret.opening = fnCall.frames
       /\ fnCall.ret.closing = <<>>

\* the words of a string: its runs of characters other than the space
WordCount(text) ==
    LET tokens == Split(text)
    IN Cardinality({i \in DOMAIN tokens : tokens[i] # <<>>})
FrameCount(categories) ==
    Len(categories.opening) + Len(categories.setup) + Len(categories.main)
    + Len(categories.climax) + Len(categories.closing)

\* C15: splitTranscript with categories of at least one frame returns five
\* segments whose words are together no more than the words of the
\* transcript, and a general field that is the transcript.
C15_SegmentsWithinTranscript ==
    (Returned("splitTranscript") /\ FrameCount(fnCall.categories) >= 1) =>
       LET parts == fnCall.ret IN
       /\ WordCount(parts.opening) + WordCount(parts.setup) + WordCount(parts.main)
          + WordCount(parts.climax) + WordCount(parts.closing)
             <= WordCount(fnCall.transcript)
       /\ parts.general = fnCall.transcript

C15_Witness ==
    /\ Returned("splitTranscript")
    /\ FrameCount(fnCall.categories) = 3
    /\ fnCall.transcript = ExampleTranscript
    /\ WordCount(fnCall.ret.opening) = 3
    /\ WordCount(fnCall.ret.setup) = 3
    /\ WordCount(fnCall.ret.closing) = 3

RECURSIVE SumOfFirst(_, _)
SumOfFirst(numbers, k) ==
    IF k = 0 THEN 0 ELSE SumOfFirst(numbers, k - 1) + numbers[k]

\* C16: with at least one frame, the k-th segment in the order opening,
\* setup, main, climax, closing is the run of take = floor(count / total *
\* words) words that starts where the run of the segment before it ends, the
\* first at word 0, joined by single spaces; and 10 words with the counts
\* 1, 1, 2, 0, 0 give runs of 2, 2, 5, 0 and 0 words.
C16_ContiguousRuns ==
    (Returned("splitTranscript") /\ FrameCount(fnCall.categories) > 0) =>
       LET words == Split(fnCall.transcript)
           total == FrameCount(fnCall.categories)
           take == [k \in DOMAIN partNames |->
                      Take(Len(fnCall.categories[partNames[k]]), total, Len(words))]
       IN /\ \A k \in DOMAIN partNames :
                LET start == SumOfFirst(take, k - 1) IN
                /\ start + take[k] <= Len(words)
                /\ fnCall.ret[partNames[k]] =
                      Join(SubSeq(words, start + 1, start + take[k]))
          /\ (/\ fnCall.transcript = ExampleTranscript
              /\ fnCall.categories = CategoriesOf(ExampleCounts)) =>
                /\ fnCall.ret.opening = <<"a", " ", "b">>
                /\ fnCall.ret.setup = <<"c", " ", "d">>
                /\ fnCall.ret.main = <<"e", " ", "f", " ", "g", " ", "h", " ", "i">>
                /\ fnCall.ret.climax = <<>>
                /\ fnCall.ret.closing = <<>>

C16_Witness ==
    /\ Returned("splitTranscript")
    /\ fnCall.transcript = ExampleTranscript
    /\ fnCall.categories = CategoriesOf(ExampleCounts)
    /\ fnCall.ret.setup = <<"c", " ", "d">>

EmptyCategories ==
    [opening |-> <<>>, setup |-> <<>>, main |-> <<>>, climax |-> <<>>,
     closing |-> <<>>, maxTimestamp |-> 0]

\* C17: categorizeFrames of the empty array returns five empty categories
\* and maxTimestamp 0; splitTranscript of a transcript and these categories
\* returns five empty segments and the transcript as general.
C17_EmptyInput ==
    /\ (Returned("categorizeFrames") /\ fnCall.frames = <<>>) =>
          fnCall.ret = EmptyCategories
    /\ (Returned("splitTranscript") /\ fnCall.categories = EmptyCategories) =>
          fnCall.ret = [opening |-> <<>>, setup |-> <<>>, main |-> <<>>,
                        climax |-> <<>>, closing |-> <<>>,
                        general |-> fnCall.transcript]

C17_Witness ==
    /\ Returned("splitTranscript")
    /\ fnCall.categories = EmptyCategories
    /\ fnCall.transcript = ExampleTranscript
    /\ fnCall.ret.general = ExampleTranscript

\* v has a field k
Has(v, k) == v.t = "object" /\ k \in DOMAIN v.fields
\* v has an array of strings as recomendations and an object, not null and
\* not an array, with only booleans as assessmentIndicators
ItemShape(v) ==
    /\ Has(v, "recomendations")
    /\ v.fields.recomendations.t = "array"
    /\ \A i \in DOMAIN v.fields.recomendations.items :
          v.fields.recomendations.items[i].t = "string"
    /\ Has(v, "assessmentIndicators")
    /\ v.fields.assessmentIndicators.t = "object"
    /\ \A k \in DOMAIN v.fields.assessmentIndicators.fields :
          v.fields.assessmentIndicators.fields[k].t = "boolean"
DocumentShape(x) ==
    /\ \A name \in {"opening", "setup", "main", "climax", "closing", "general"} :
          Has(x, name) /\ ItemShape(x.fields[name])
    /\ Has(x.fields.general, "summary")
    /\ x.fields.general.fields.summary.t = "string"

\* C18: isOpenAIResponseResult(x) returns, without throwing, a truthy value
\* exactly when each of the six items of x has an array of strings as
\* recomendations and an object of booleans as assessmentIndicators and
\* x.general has a string as summary.
C18_ValidatorIsShapeCheck ==
    Returned("isOpenAIResponseResult") =>
       /\ fnCall.ret # JThrown
       /\ Truthy(fnCall.ret) <=> DocumentShape(fnCall.obj)

C18_Witness ==
    /\ Returned("isOpenAIResponseResult")
    /\ Has(fnCall.obj, "closing")
    /\ fnCall.obj.fields.closing = JNull
    /\ fnCall.obj.fields.opening = GoodItem
    /\ ~Truthy(fnCall.ret)

ItemNames == {"opening", "setup", "main", "climax", "closing", "general"}
\* an item with no recommendation and no indicator
IsEmptyItem(item) ==
    /\ Get(item, "recomendations") = JArr(<<>>)
    /\ Get(item, "assessmentIndicators") = JObj(NoFields)

\* C19: a document whose items are well-shaped, empty ones included, and
\* whose general has a string summary, the empty string included, is not
\* rejected by the validation of line 458: the handler calls create with
\* it, and what it then answers with 200 is the row it stored.
C19_ShapeOnlyValidation ==
    \A r \in Requests :
       /\ (/\ pc[r] = "summarizing"
           /\ \A k \in DOMAIN partNames : values[r][k].json \in {GoodItem, EmptyItem})
          => \A general \in {GoodGeneral, EmptyGeneral} :
                ~Rejects(Assemble(general, values[r]))
       /\ (pc[r] = "done" /\ Issued(r, ErrorLogged("Invalid result structure from OpenAI")))
          => Issued(r, "gptJson summary") /\ ~Issued(r, "create")
       /\ (pc[r] = "done" /\ Issued(r, "create") /\ res[r].status = 200)
          => [identifier |-> identifier[r], result |-> res[r].payload] \in db

C19_Witness ==
    \E r \in Requests :
       /\ pc[r] = "done" /\ res[r].status = 200 /\ Issued(r, "create")
       /\ \A name \in ItemNames : IsEmptyItem(Get(res[r].payload.result, name))
       /\ Get(Get(res[r].payload.result, "general"), "summary") = JStr("")
       /\ [identifier |-> identifier[r], result |-> res[r].payload] \in db

\* an item with at least one recommendation and at least one indicator
IsFilledItem(item) ==
    /\ Get(item, "recomendations").t = "array"
    /\ Get(item, "recomendations").items # <<>>
    /\ Get(item, "assessmentIndicators").t = "object"
    /\ DOMAIN Get(item, "assessmentIndicators").fields # {}

\* C20: in every document stored in the table or answered with 200, each
\* of the six items has at least one recommendation and at least one
\* indicator.
C20_ItemsNonEmpty ==
    /\ \A row \in db :
          \A name \in ItemNames : IsFilledItem(Get(row.result.result, name))
    /\ \A r \in Requests :
          res[r].status = 200 =>
             \A name \in ItemNames : IsFilledItem(Get(res[r].payload.result, name))

\* C21: the table never holds two rows with one identifier, and a step of
\* the server, whichever requests are in progress, leaves every row of the
\* table in the table as it is: no row is changed and none is deleted.
C21_RecordsCreatedOnce ==
    /\ [](\A row1 \in db : \A row2 \in db :
             row1.identifier = row2.identifier => row1 = row2)
    /\ [][\A row \in db :
             /\ row \in db'
             /\ \A other \in db' : other.identifier = row.identifier => other = row]_vars

C21_Witness ==
    \E r1 \in Requests : \E r2 \in Requests \ {r1} :
       /\ identifier[r1] = identifier[r2]
       /\ Issued(r1, "miss") /\ Issued(r2, "miss")
       /\ pc[r1] = "done" /\ pc[r2] = "done"
       /\ Issued(r2, ErrorLogged("Unique constraint failed"))
       /\ db = {[identifier |-> identifier[r1], result |-> res[r1].payload]}

\* C22: a request that has arrived is in the end answered, with 200 and
\* its result or with an error and its message, and a handler that has
\* ended has answered.
C22_EveryInvocationAnswers ==
    \A r \in {"r1"} :
       pc[r] # "idle" ~> (pc[r] = "done" /\ res[r].status \in {200, 400, 500})

C24_FramesInTimestampOrder ==
    \A r \in Requests :
       LET fr == frame[r] IN
       /\ fr.pc \in {"upload", "ok"} =>
             \A i \in DOMAIN fr.values :
                fr.values[i] # PendingFrame =>
                   /\ fr.values[i].id = i - 1
                   /\ fr.values[i].timestamp = (i - 1) * usedInterval
                   /\ fr.values[i].url = fr.listing[i]
       /\ fr.pc = "ok" =>
             /\ \A i \in DOMAIN fr.values : fr.values[i] # PendingFrame
             /\ \A i \in DOMAIN fr.values : \A j \in DOMAIN fr.values :
                   i < j => fr.values[i].timestamp < fr.values[j].timestamp
       /\ (\E i \in DOMAIN fr.values :
              i \notin fr.inflight /\ fr.values[i] = PendingFrame)
          => fr.pc = "failed"

C24_Witness ==
    \E r \in Requests :
       /\ frame[r].pc = "upload"
       /\ Len(frame[r].values) = 2
       /\ 1 \in frame[r].inflight
       /\ frame[r].values[2] # PendingFrame

Whitespace == {" ", "\t", "\n"}
IsWord(piece) == piece # <<>>
\* the runs of characters of a text that are not whitespace
Tokens(text) == SelectSeq(SplitOn(text, Whitespace), IsWord)

\* C25: the words splitTranscript counts and places are the runs of
\* characters other than whitespace of the transcript: each segment is a
\* run of these tokens, as many as floor(count / total * tokens), joined by
\* single spaces, and no segment has an empty word or whitespace in a word.
C25_WhitespaceTokens ==
    (Returned("splitTranscript") /\ FrameCount(fnCall.categories) > 0) =>
       LET tokens == Tokens(fnCall.transcript)
           total == FrameCount(fnCall.categories)
           take == [k \in DOMAIN partNames |->
                      Take(Len(fnCall.categories[partNames[k]]), total, Len(tokens))]
       IN \A k \in DOMAIN partNames :
             LET start == SumOfFirst(take, k - 1) IN
             fnCall.ret[partNames[k]] =
                Join(SubSeq(tokens, start + 1, start + take[k]))

\* an extraction task of r has not come to its end, or an upload of a frame
\* is under way
Running(r) ==
    \/ audio[r].pc \in {"ffmpeg", "probe", "upload"}
    \/ frame[r].pc \in {"probe", "ffmpeg", "upload"}
    \/ frame[r].inflight # {}

\* C26: while an extraction task of a request is running, the uploaded
\* file of the request exists and the handler has not answered.
C26_UploadKeptWhileExtracting ==
    \A r \in Requests :
       Running(r) => (inputPath(r) \in files /\ pc[r] # "done")

\* frames as extractAndUploadFrames returns them: in the order of their
\* timestamps, the first at 0, the last later than 0
InTimestampOrder(frames) ==
    /\ Len(frames) >= 2
    /\ frames[1].timestamp = 0
    /\ frames[Len(frames)].timestamp > 0
    /\ \A i \in 1..(Len(frames) - 1) : frames[i].timestamp <= frames[i + 1].timestamp
\* the number, 1 for opening to 5 for closing, of the category of c in
\* which frame f stands
CategoryIndex(c, f) ==
    CHOOSE k \in DOMAIN partNames : f \in Range(c[partNames[k]])

\* C27: categorizeFrames of frames in the order of their timestamps, the
\* first at 0 and the largest timestamp above 0, puts a later frame in the
\* same or a later category than an earlier one, the first frame in opening
\* and every frame of the largest timestamp in closing, so that neither
\* opening nor closing is empty.
C27_CategoriesFollowTime ==
    (Returned("categorizeFrames") /\ InTimestampOrder(fnCall.frames)) =>
       LET frames == fnCall.frames
           c == fnCall.ret
           last == frames[Len(frames)].timestamp
       IN /\ c.maxTimestamp = last
          /\ \A i \in DOMAIN frames : \A j \in DOMAIN frames :
                i < j => CategoryIndex(c, frames[i]) <= CategoryIndex(c, frames[j])
          /\ frames[1] \in Range(c.opening)
          /\ \A i \in DOMAIN frames :
                frames[i].timestamp = last => frames[i] \in Range(c.closing)
          /\ c.opening # <<>>
          /\ c.closing # <<>>

C27_Witness ==
    /\ Returned("categorizeFrames")
    /\ InTimestampOrder(fnCall.frames)
    /\ fnCall.frames = ExampleFrames
    /\ Len(fnCall.ret.opening) = 2
    /\ Len(fnCall.ret.closing) = 1

\* the words of a segment
WordsOf(segment) == IF segment = <<>> THEN <<>> ELSE Split(segment)
\* a transcript of words with one space between them
SingleSpaced(text) == \A w \in Range(Split(text)) : w # <<>>
\* the categories that hold a frame
NonEmptyBuckets(categories) ==
    {k \in DOMAIN partNames : Len(categories[partNames[k]]) > 0}

\* C28: splitTranscript of a single-spaced transcript and categories of at
\* least one frame leaves out of the five segments fewer words than there
\* are categories with a frame, the words left out are the last words of
\* the transcript, and with the frames in one category the segment of that
\* category is the whole transcript and the other four are empty.
C28_FewTrailingWordsDropped ==
    (/\ Returned("splitTranscript")
     /\ FrameCount(fnCall.categories) > 0
     /\ SingleSpaced(fnCall.transcript))
    => LET words == Split(fnCall.transcript)
           parts == fnCall.ret
           assigned == WordsOf(parts.opening) \o WordsOf(parts.setup)
                       \o WordsOf(parts.main) \o WordsOf(parts.climax)
                       \o WordsOf(parts.closing)
           buckets == NonEmptyBuckets(fnCall.categories)
       IN /\ Len(assigned) <= Len(words)
          /\ assigned = SubSeq(words, 1, Len(assigned))
          /\ Len(words) - Len(assigned) <= Cardinality(buckets) - 1
          /\ Len(words) - Len(assigned) <= 4
          /\ Cardinality(buckets) = 1 =>
                \A k \in DOMAIN partNames :
                   parts[partNames[k]] =
                      IF k \in buckets THEN fnCall.transcript ELSE <<>>

=============================================================================
